---- MODULE Spec2Model ----
(* Black-frame detector of scrcpy (app/src/black_frame_detector.c):       *)
(* the luminance classifier is_black_frame and the episode state machine  *)
(* of sc_black_frame_detector_sink_push, driven by a frame source that    *)
(* calls open, push and close on the sink.                                *)
EXTENDS Integers, Sequences, FiniteSets, TLC

\* ---------------------------------------------------------------- bounds
MaxFrames == 18       \* pushes explored from each initial state
RunCap == 14          \* the history counter of a black run saturates here
SigCap == 2           \* the history counter of reset signals saturates here
EpCap == 4            \* the history counter of episodes saturates here
ProbeWidth == 2       \* widest frame handed to the classifier on its own
ProbeHeight == 2      \* tallest frame handed to the classifier on its own

\* ------------------------------------------------------ program constants
BlackThreshold == 30
ScreenOffCeiling == 10
BlinkMin == 2
BlinkMax == 5
EpisodeThreshold == 3
IdleWindow == 300

\* ------------------------------------------------------------------ frames
SupportedYUV == {"YUV420P", "NV12", "NV21"}
SupportedRGB == {"RGB24", "BGR24"}
Formats == SupportedYUV \cup SupportedRGB \cup {"GRAY8"}

\* Frames: width x height pixels; each row of plane 0 holds 3 * width bytes
\* of samples followed by padding (for the luma formats the samples are the
\* first width bytes and the rest of the row is padding too).
FrameWidth == 2
FrameHeight == 1
FramePadding == 1
FrameLinesize == 3 * FrameWidth + FramePadding

\* plane 0 with every sample byte v and every padding byte pad
Plane(v, pad) ==
    [k \in 1..(FrameLinesize * FrameHeight) |->
        IF (k - 1) % FrameLinesize < 3 * FrameWidth THEN v ELSE pad]

Planes == {Plane(BlackThreshold - 1, 255), Plane(BlackThreshold, 0)}

Frames == [format : Formats, width : {FrameWidth}, height : {FrameHeight},
           linesize : {FrameLinesize}, data : Planes]

\* Frames for the classifier on its own: w x h pixels, rows of RowBytes
\* sample bytes followed by FramePadding padding bytes; every sample is v
\* except the byte at index pos (if that is a sample), which is d; every
\* padding byte is pad; chroma stands for the content of planes 1 and 2.
Bytes == {0, BlackThreshold - 1, BlackThreshold, BlackThreshold + 1, 255}
PadBytes == {0, 255}
RowBytes(format, w) == IF format \in SupportedRGB THEN 3 * w ELSE w

ProbeFrame(format, w, h, v, d, pos, pad, chroma) ==
    LET ls == RowBytes(format, w) + FramePadding
    IN [format |-> format, width |-> w, height |-> h, linesize |-> ls,
        data |-> [k \in 1..(ls * h) |->
                     IF (k - 1) % ls >= RowBytes(format, w) THEN pad
                     ELSE IF k = pos THEN d ELSE v],
        chroma |-> chroma]

\* pairs of frames that differ at most in padding and chroma
Probes ==
    {[a |-> ProbeFrame(f, w, h, v, d, pos, pad[1], 0),
      b |-> ProbeFrame(f, w, h, v, d, pos, pad[2], c)] :
        f \in Formats, w \in 1..ProbeWidth, h \in 1..ProbeHeight,
        v \in Bytes, d \in Bytes,
        pos \in 1..((3 * ProbeWidth + FramePadding) * ProbeHeight),
        pad \in PadBytes \X PadBytes, c \in PadBytes}

RECURSIVE SumBytes_WholeRow(_, _, _, _)
SumBytes_WholeRow(frame, cols, i, j) ==
    IF i >= frame.height THEN 0
    ELSE IF j >= frame.linesize THEN SumBytes_WholeRow(frame, cols, i + 1, 0)
    ELSE frame.data[i * frame.linesize + j + 1]
         + SumBytes_WholeRow(frame, cols, i, j + 1)

RECURSIVE SumBytes(_, _, _, _)
\* the two nested loops: sum of data[i * linesize + j], i < height, j < cols
SumBytes(frame, cols, i, j) ==
    IF i >= frame.height THEN 0
    ELSE IF j >= cols THEN SumBytes(frame, cols, i + 1, 0)
    ELSE frame.data[i * frame.linesize + j + 1] + SumBytes(frame, cols, i, j + 1)

BelowThreshold_Inclusive(sum, total) == sum <= BlackThreshold * total

\* (double) sum / total < 30, exact for these magnitudes
BelowThreshold(sum, total) == sum < BlackThreshold * total

is_black_frame_AnyFormat(frame) ==
    BelowThreshold(SumBytes(frame, frame.width, 0, 0),
                   frame.width * frame.height)

is_black_frame(frame) ==
    IF frame.format \in SupportedYUV
    THEN BelowThreshold(SumBytes(frame, frame.width, 0, 0),
                        frame.width * frame.height)
    ELSE IF frame.format \in SupportedRGB
    THEN BelowThreshold(SumBytes(frame, frame.width * 3, 0, 0),
                        frame.width * frame.height * 3)
    ELSE FALSE

\* ------------------------------------------------------------------- state
VARIABLES
    bfd,          \* struct sc_black_frame_detector (the four int fields)
    pc,           \* the frame source: "attached", "opened", "reopened",
                  \* "streaming" (after a push), "closed"
    ret,          \* <<r>> after a call that returned r, <<>> after a void call
    class,        \* the last pushed frame: "black", "other" (supported format,
                  \* not black) or "unsupported"
    events,       \* calls of SDL_PushEvent made by the last push
    delivered,    \* events of the last push that SDL accepted
    episode,      \* the last push executed recent_black_episodes++
    run,          \* consecutive pushes of black frames since the last push of
                  \* a non-black one, close and open not counting as frames
                  \* (saturates at RunCap)
    ended_run,    \* value of run that the last push ended (0: none)
    nsig,         \* reset signals emitted since init (saturates at SigCap)
    eps_since_sig,\* episodes completed since the last signal (saturates)
    phase,        \* blink pattern N* (B^2..5 N+)^k pushed since init: k, or -1
    only_long,    \* every black run completed since init was longer than the
                  \* screen-off ceiling
    since_ep,     \* pushes since the last episode that left 1 or 2 episodes
                  \* counted (-1: none; saturates at IdleWindow + 2)
    sig_since,    \* a signal was emitted in those pushes
    rbe_start,    \* recent_black_episodes before the current or last run
    run_sig,      \* a signal was emitted during the current or last run
    expiring,     \* the increment of the last push took
                  \* frames_since_last_black_episode above the idle window
    screen_off,   \* the last push took the screen-off branch (lines 84-89)
    chain,        \* episodes completed since the last signal such that each
                  \* came at most 301 pushes after the one before it, with no
                  \* screen-off push in between (saturates at EpCap)
    rule,         \* state of the transition rule of spec section 4.2, fed
                  \* the same classified frames
    limit,        \* the frame source stops pushing at this many frames
    probe,        \* the pair of frames handed to the classifier on its own
    verdict       \* <<is_black_frame(probe.a), is_black_frame(probe.b)>>
                  \* once it has run, <<>> before

vars == <<bfd, pc, ret, class, events, delivered, episode, run, ended_run,
          nsig, eps_since_sig, phase, only_long, since_ep, sig_since,
          rbe_start, run_sig, expiring, screen_off, chain, rule, limit,
          probe, verdict>>

Min(a, b) == IF a < b THEN a ELSE b

\* --------------------------------------------------------------- the code
sc_black_frame_detector_init ==
    [black_frame_count |-> 0, total_frames_processed |-> 0,
     recent_black_episodes |-> 0, frames_since_last_black_episode |-> 0]

IsScreenOff_AtCeiling(count) == count >= ScreenOffCeiling
IsScreenOff_Late(count) == count > ScreenOffCeiling + 1

\* line 84: too many consecutive black frames
IsScreenOff(count) == count > ScreenOffCeiling

AfterScreenOff_Kept(episodes) == episodes

\* line 87: the episode count after a screen-off
AfterScreenOff(episodes) == 0

IsBlinkEpisode_ShortBand(count) == count >= BlinkMin /\ count < BlinkMax
IsBlinkEpisode_NoUpper(count) == count >= BlinkMin

\* line 95: a short burst of black frames
IsBlinkEpisode(count) == count >= BlinkMin /\ count <= BlinkMax

\* line 101: multiple blinking episodes
ShouldReset(episodes) == episodes >= EpisodeThreshold

AfterTrigger_Kept(episodes, posted) == episodes

\* line 106: the count after the event was posted (the result of
\* SDL_PushEvent is discarded)
AfterTrigger(episodes, posted) == 0

IdleExpired_Late(frames) == frames > IdleWindow + 1

\* line 115: too much time without an episode
IdleExpired(frames) == frames > IdleWindow

PushReturn_Posted(posted) == posted

\* lines 88 and 123: the value push returns (posted: result of the last
\* SDL_PushEvent of this push, TRUE when none was made)
PushReturn(posted) == TRUE

\* lines 114-121
IdleCheck(d) ==
    IF IdleExpired(d.frames_since_last_black_episode)
    THEN [d EXCEPT !.recent_black_episodes = 0,
                   !.frames_since_last_black_episode = 0]
    ELSE d

EndOfRun_WindowKept(d, post) ==
    IF IsBlinkEpisode(d.black_frame_count)
    THEN LET e == d.recent_black_episodes + 1
             sig == ShouldReset(e)
         IN [bfd |-> [d EXCEPT !.recent_black_episodes =
                                   IF sig THEN AfterTrigger(e, post) ELSE e,
                               !.black_frame_count = 0],
             episode |-> TRUE,
             events |-> IF sig THEN 1 ELSE 0,
             delivered |-> IF sig /\ post THEN 1 ELSE 0]
    ELSE [bfd |-> [d EXCEPT !.black_frame_count = 0],
          episode |-> FALSE, events |-> 0, delivered |-> 0]

\* lines 95-110: the run that just ended had d.black_frame_count frames
EndOfRun(d, post) ==
    IF IsBlinkEpisode(d.black_frame_count)
    THEN LET e == d.recent_black_episodes + 1
             sig == ShouldReset(e)
         IN [bfd |-> [d EXCEPT !.recent_black_episodes =
                                   IF sig THEN AfterTrigger(e, post) ELSE e,
                               !.frames_since_last_black_episode = 0,
                               !.black_frame_count = 0],
             episode |-> TRUE,
             events |-> IF sig THEN 1 ELSE 0,
             delivered |-> IF sig /\ post THEN 1 ELSE 0]
    ELSE [bfd |-> [d EXCEPT !.black_frame_count = 0],
          episode |-> FALSE, events |-> 0, delivered |-> 0]

\* lines 66-124; post: whether SDL_PushEvent succeeds if it is called
sc_black_frame_detector_sink_push(d0, frame, post) ==
    LET d1 == [d0 EXCEPT !.total_frames_processed = @ + 1,
                         !.frames_since_last_black_episode = @ + 1]
    IN IF is_black_frame(frame)
       THEN LET d2 == [d1 EXCEPT !.black_frame_count = @ + 1]
            IN IF IsScreenOff(d2.black_frame_count)
               THEN [bfd |-> [d2 EXCEPT !.black_frame_count = 0,
                                        !.recent_black_episodes =
                                            AfterScreenOff(@)],
                     episode |-> FALSE, events |-> 0, delivered |-> 0,
                     screen_off |-> TRUE, ret |-> PushReturn(TRUE)]
               ELSE [bfd |-> IdleCheck(d2),
                     episode |-> FALSE, events |-> 0, delivered |-> 0,
                     screen_off |-> FALSE, ret |-> PushReturn(TRUE)]
       ELSE IF d1.black_frame_count > 0
            THEN LET r == EndOfRun(d1, post)
                 IN [bfd |-> IdleCheck(r.bfd), episode |-> r.episode,
                     events |-> r.events, delivered |-> r.delivered,
                     screen_off |-> FALSE,
                     ret |-> PushReturn(r.events = 0 \/ post)]
            ELSE [bfd |-> IdleCheck(d1),
                  episode |-> FALSE, events |-> 0, delivered |-> 0,
                  screen_off |-> FALSE, ret |-> PushReturn(TRUE)]

\* lines 53-59: the detector is not touched
sc_black_frame_detector_sink_open(d) == [bfd |-> d, ret |-> TRUE]

\* lines 61-64: the detector is not touched
sc_black_frame_detector_sink_close(d) == d

\* ----------------------------------------------------------------- history
\* the blink pattern of the frames pushed so far, after one more frame
NextPhase(ph, r, isBlack) ==
    IF ph = -1 THEN -1
    ELSE IF isBlack
    THEN (IF ph >= 3 \/ r + 1 > 5 THEN -1 ELSE ph)
    ELSE (IF r = 0 THEN ph
          ELSE IF r >= 2 /\ r <= 5 THEN ph + 1 ELSE -1)

NextSinceEp(s, r) ==
    IF r.episode
    THEN (IF r.bfd.recent_black_episodes \in {1, 2} THEN 0 ELSE -1)
    ELSE IF s = -1 THEN -1 ELSE Min(s + 1, IdleWindow + 2)

Classify(frame) ==
    IF frame.format \notin SupportedYUV \cup SupportedRGB THEN "unsupported"
    ELSE IF is_black_frame(frame) THEN "black"
    ELSE "other"

\* the chain of episodes after one more push with outcome r
NextChain(s, r) ==
    LET base == IF s.events > 0 THEN 0 ELSE s.chain
    IN IF r.screen_off THEN 0
       ELSE IF r.episode
       THEN Min((IF s.since_ep # -1 /\ s.since_ep + 1 <= 301
                 THEN base ELSE 0) + 1, EpCap)
       ELSE base

\* The transition rule of spec section 4.2, steps 1 to 4 in order, with the
\* defaults the spec gives (ceiling 10, band 2-5, threshold 3, window 300).
RuleInit ==
    [currentBlackRun |-> 0, recentEpisodes |-> 0,
     framesSinceLastEpisode |-> 0, signal |-> FALSE]

RuleStep(q, isBlack) ==
    LET f1 == q.framesSinceLastEpisode + 1
        \* step 2
        r2 == IF isBlack THEN q.currentBlackRun + 1 ELSE q.currentBlackRun
        off == isBlack /\ r2 > 10
        r2b == IF off THEN 0 ELSE r2
        e2 == IF off THEN 0 ELSE q.recentEpisodes
        \* step 3
        ended == ~isBlack /\ r2b > 0
        blink == ended /\ r2b >= 2 /\ r2b <= 5
        e3 == IF blink THEN e2 + 1 ELSE e2
        f3 == IF blink THEN 0 ELSE f1
        sig == blink /\ e3 >= 3
        e3b == IF sig THEN 0 ELSE e3
        r3 == IF ended THEN 0 ELSE r2b
        \* step 4
        idle == f3 > 300 /\ e3b > 0
    IN [currentBlackRun |-> r3,
        recentEpisodes |-> IF idle THEN 0 ELSE e3b,
        framesSinceLastEpisode |-> IF idle THEN 0 ELSE f3,
        signal |-> sig]

\* ------------------------------------------------ the steps, on whole states
Fresh ==
    [bfd |-> sc_black_frame_detector_init, pc |-> "attached", ret |-> <<>>,
     class |-> "other", events |-> 0, delivered |-> 0, episode |-> FALSE,
     run |-> 0, ended_run |-> 0, nsig |-> 0, eps_since_sig |-> 0,
     phase |-> 0, only_long |-> TRUE, since_ep |-> -1, sig_since |-> FALSE,
     rbe_start |-> 0, run_sig |-> FALSE, expiring |-> FALSE,
     screen_off |-> FALSE, chain |-> 0, rule |-> RuleInit]

AfterOpen(s) ==
    LET r == sc_black_frame_detector_sink_open(s.bfd)
    IN [s EXCEPT !.bfd = r.bfd, !.ret = <<r.ret>>,
                 !.pc = IF s.pc = "closed" THEN "reopened" ELSE "opened"]

AfterPush(s, frame, post) ==
    LET r == sc_black_frame_detector_sink_push(s.bfd, frame, post)
        b == is_black_frame(frame)
    IN [bfd |-> r.bfd, pc |-> "streaming", ret |-> <<r.ret>>,
        class |-> Classify(frame),
        events |-> r.events, delivered |-> r.delivered,
        episode |-> r.episode,
        run |-> IF b THEN Min(s.run + 1, RunCap) ELSE 0,
        ended_run |-> IF b THEN 0 ELSE s.run,
        nsig |-> Min(s.nsig + r.events, SigCap),
        eps_since_sig |-> IF r.events > 0 THEN 0
                          ELSE IF r.episode THEN Min(s.eps_since_sig + 1, EpCap)
                          ELSE s.eps_since_sig,
        phase |-> NextPhase(s.phase, s.run, b),
        only_long |-> s.only_long
                      /\ (b \/ s.run = 0 \/ s.run > ScreenOffCeiling),
        since_ep |-> NextSinceEp(s.since_ep, r),
        sig_since |-> IF r.episode THEN FALSE
                      ELSE (s.sig_since \/ r.events > 0),
        rbe_start |-> IF s.run = 0 THEN s.bfd.recent_black_episodes
                      ELSE s.rbe_start,
        run_sig |-> IF s.run = 0 THEN r.events > 0
                    ELSE (s.run_sig \/ r.events > 0),
        expiring |-> s.bfd.frames_since_last_black_episode + 1 > IdleWindow,
        screen_off |-> r.screen_off,
        chain |-> NextChain(s, r),
        rule |-> RuleStep(s.rule, b)]

AfterClose(s) ==
    [s EXCEPT !.bfd = sc_black_frame_detector_sink_close(s.bfd),
              !.ret = <<>>, !.pc = "closed", !.phase = -1]

\* the frames the prefixes below are made of
BlackFrame == [format |-> "YUV420P", width |-> FrameWidth,
               height |-> FrameHeight, linesize |-> FrameLinesize,
               data |-> Plane(BlackThreshold - 1, 255)]
PlainFrame == [format |-> "YUV420P", width |-> FrameWidth,
               height |-> FrameHeight, linesize |-> FrameLinesize,
               data |-> Plane(BlackThreshold, 0)]

RECURSIVE AfterRepeat(_, _, _)
\* the state after n more pushes of the same frame
AfterRepeat(s, frame, n) ==
    IF n = 0 \/ s.pc = "closed" THEN s
    ELSE IF n = 1 THEN AfterPush(s, frame, TRUE)
    ELSE AfterRepeat(AfterRepeat(s, frame, n \div 2), frame, n - (n \div 2))

RECURSIVE AfterBursts(_, _, _)
\* the state after k bursts of len black frames, each ended by a plain frame
AfterBursts(s, len, k) ==
    IF k = 0 THEN s
    ELSE AfterBursts(AfterRepeat(AfterRepeat(s, BlackFrame, len),
                                 PlainFrame, 1), len, k - 1)

\* States the stream is started from, each computed from the fresh detector
\* by the steps above: the fresh detector itself; the opened detector after
\* two long black runs; the opened detector after k short bursts and a
\* quiet stretch that ends a few pushes before the idle window expires; and
\* the opened detector after one short burst and a quiet stretch that has
\* just outlasted the idle window.
QuietFrames == IdleWindow + 3 - MaxFrames
Started ==
    {Fresh, AfterBursts(AfterOpen(Fresh), ScreenOffCeiling + BlinkMin + 1, 2)}
    \cup {AfterRepeat(AfterBursts(AfterOpen(Fresh), BlinkMin, k),
                      PlainFrame, QuietFrames) : k \in 0..(EpisodeThreshold - 1)}
    \cup {AfterRepeat(AfterBursts(AfterOpen(Fresh), BlinkMin, 1),
                      PlainFrame, IdleWindow + 1)}

\* ----------------------------------------------------------------- actions
cur == [bfd |-> bfd, pc |-> pc, ret |-> ret, class |-> class,
        events |-> events, delivered |-> delivered, episode |-> episode,
        run |-> run, ended_run |-> ended_run, nsig |-> nsig,
        eps_since_sig |-> eps_since_sig, phase |-> phase,
        only_long |-> only_long, since_ep |-> since_ep,
        sig_since |-> sig_since, rbe_start |-> rbe_start,
        run_sig |-> run_sig, expiring |-> expiring,
        screen_off |-> screen_off, chain |-> chain, rule |-> rule]

Becomes(s) ==
    /\ bfd' = s.bfd /\ pc' = s.pc /\ ret' = s.ret /\ class' = s.class
    /\ events' = s.events /\ delivered' = s.delivered
    /\ episode' = s.episode /\ run' = s.run /\ ended_run' = s.ended_run
    /\ nsig' = s.nsig /\ eps_since_sig' = s.eps_since_sig
    /\ phase' = s.phase /\ only_long' = s.only_long
    /\ since_ep' = s.since_ep /\ sig_since' = s.sig_since
    /\ rbe_start' = s.rbe_start /\ run_sig' = s.run_sig
    /\ expiring' = s.expiring /\ screen_off' = s.screen_off
    /\ chain' = s.chain /\ rule' = s.rule

Starts(S) ==
    \E s \in S :
        /\ bfd = s.bfd /\ pc = s.pc /\ ret = s.ret /\ class = s.class
        /\ events = s.events /\ delivered = s.delivered
        /\ episode = s.episode /\ run = s.run /\ ended_run = s.ended_run
        /\ nsig = s.nsig /\ eps_since_sig = s.eps_since_sig
        /\ phase = s.phase /\ only_long = s.only_long
        /\ since_ep = s.since_ep /\ sig_since = s.sig_since
        /\ rbe_start = s.rbe_start /\ run_sig = s.run_sig
        /\ expiring = s.expiring /\ screen_off = s.screen_off
        /\ chain = s.chain /\ rule = s.rule
        /\ limit = s.bfd.total_frames_processed + MaxFrames

\* no frame is handed to the classifier on its own while a stream runs
NoProbe == [a |-> BlackFrame, b |-> BlackFrame]

Init == Starts(Started) /\ probe = NoProbe /\ verdict = <<>>

\* the detector right after sc_black_frame_detector_init, and nothing else
InitFresh == Starts({Fresh}) /\ probe = NoProbe /\ verdict = <<>>

Open ==
    /\ pc \in {"attached", "closed"}
    /\ Becomes(AfterOpen(cur))
    /\ UNCHANGED <<limit, probe, verdict>>

\* the outcome of SDL_PushEvent is an input of the pushes that call it
PostOutcomes(frame) ==
    IF sc_black_frame_detector_sink_push(bfd, frame, TRUE).events > 0
    THEN BOOLEAN ELSE {TRUE}

Push ==
    /\ pc \in {"opened", "reopened", "streaming"}
    /\ bfd.total_frames_processed < limit
    /\ \E frame \in Frames : \E post \in PostOutcomes(frame) :
           Becomes(AfterPush(cur, frame, post))
    /\ UNCHANGED <<limit, probe, verdict>>

Close ==
    /\ pc \in {"opened", "reopened", "streaming"}
    /\ Becomes(AfterClose(cur))
    /\ UNCHANGED <<limit, probe, verdict>>

Next == Open \/ Push \/ Close

Spec == Init /\ [][Next]_vars

SpecFresh == InitFresh /\ [][Next]_vars

\* --------------------------------------------- the classifier on its own
InitClassify == Starts({Fresh}) /\ probe \in Probes /\ verdict = <<>>

ClassifyProbe ==
    /\ verdict = <<>>
    /\ verdict' = <<is_black_frame(probe.a), is_black_frame(probe.b)>>
    /\ UNCHANGED <<bfd, pc, ret, class, events, delivered, episode, run,
                   ended_run, nsig, eps_since_sig, phase, only_long,
                   since_ep, sig_since, rbe_start, run_sig, expiring,
                   screen_off, chain, rule, limit, probe>>

NextClassify == ClassifyProbe

SpecClassify == InitClassify /\ [][NextClassify]_vars

\* ------------------------------------------------------------ abbreviations
black_frame_count == bfd.black_frame_count
recent_black_episodes == bfd.recent_black_episodes
frames_since_last_black_episode == bfd.frames_since_last_black_episode
total_frames_processed == bfd.total_frames_processed
Pushed == pc = "streaming"

\* ================================================================== claims

\* C1: from the fresh detector, a frame sequence made of three black runs
\* of 2 to 5 frames, each followed by at least one non-black frame, shorter
\* than 300 frames in all, makes push emit exactly one reset signal, during
\* the push of the non-black frame that ends the third run: no signal has
\* been emitted while fewer than three runs are complete, exactly one once
\* the third is, and the push that ends the third run is the one emitting.
C1_ThreeBlinksOneSignal ==
    (phase # -1 /\ total_frames_processed < 300) =>
        /\ nsig = (IF phase = 3 THEN 1 ELSE 0)
        /\ (phase = 3 /\ ended_run > 0) => events = 1
        /\ (phase < 3) => events = 0
C1_Witness ==
    /\ phase = 3 /\ ended_run = 5 /\ events = 1 /\ nsig = 1
    /\ total_frames_processed < 300

\* C2: debounce. A push that emits the reset signal emits it once, leaves
\* recent_black_episodes at 0, and completes an episode that is at least the
\* third one completed since the previous signal (or since init).
C2_Debounce ==
    [][(total_frames_processed' # total_frames_processed /\ events' > 0) =>
          /\ events' = 1
          /\ recent_black_episodes' = 0
          /\ episode'
          /\ eps_since_sig >= 2]_vars
C2_Witness == Pushed /\ nsig = 2 /\ events = 1 /\ recent_black_episodes = 0

\* C3: no reset signal is emitted during the push of a black frame, nor
\* during the push of the non-black frame that ends a run of more than 10
\* consecutive black frames, whatever was counted before the run started.
C3_LongRunNeverTriggers ==
    Pushed => /\ (class = "black" => events = 0)
              /\ (ended_run > 10 => events = 0)
C3_Witness ==
    Pushed /\ ended_run > 10 /\ rbe_start = 2 /\ episode /\ events = 0

\* C4: as long as every completed black run since init was longer than 10
\* frames, no push has emitted the reset signal.
C4_NoFalsePositive == only_long => nsig = 0
C4_Witness ==
    /\ Pushed /\ only_long /\ ended_run > 10 /\ episode
    /\ rbe_start = 1 /\ recent_black_episodes = 1 /\ nsig = 0
    /\ total_frames_processed > 3 * ScreenOffCeiling

\* C5: a push increments recent_black_episodes only when it carries a
\* non-black frame that ends a black run of actual length 2 to 5.
C5_EpisodeOnlyForShortRun ==
    (Pushed /\ episode) =>
        class # "black" /\ ended_run >= 2 /\ ended_run <= 5

\* C6: idle aging. After the 301st push since a push that completed an
\* episode and left recent_black_episodes at 1 or 2, with no episode
\* completed in between, recent_black_episodes is 0 and none of those
\* pushes emitted the reset signal.
C6_IdleAging ==
    since_ep = 301 => recent_black_episodes = 0 /\ ~sig_since
C6_Witness ==
    /\ Pushed /\ since_ep = 301 /\ recent_black_episodes = 0
    /\ frames_since_last_black_episode = 0 /\ nsig = 0

\* C7: the push of the 11th consecutive black frame of a run leaves
\* black_frame_count and recent_black_episodes at 0 and emits no signal;
\* the push of a non-black frame right after it counts no episode, emits
\* no signal and leaves recent_black_episodes at 0.
C7_ScreenOffCeiling ==
    /\ (Pushed /\ run = 11) =>
           /\ black_frame_count = 0 /\ recent_black_episodes = 0
           /\ events = 0 /\ ~episode
    /\ (Pushed /\ ended_run = 11) =>
           ~episode /\ events = 0 /\ recent_black_episodes = 0
C7_Witness ==
    /\ Pushed /\ ended_run = 11 /\ rbe_start = 2
    /\ recent_black_episodes = 0 /\ ~episode

\* C8: the push of the non-black frame that ends a run of exactly 10 black
\* frames counts no episode and leaves black_frame_count at 0; no signal was
\* emitted during the run; recent_black_episodes is what it was before the
\* run, or 0 if the idle window expired during the run (in which case
\* frames_since_last_black_episode restarted during the 11 pushes).
C8_TenFrameRun ==
    (Pushed /\ ended_run = 10) =>
        /\ ~episode /\ ~run_sig /\ events = 0
        /\ black_frame_count = 0
        /\ \/ recent_black_episodes = rbe_start
           \/ (recent_black_episodes = 0
               /\ frames_since_last_black_episode < 11)
C8_Witness ==
    /\ Pushed /\ ended_run = 10 /\ rbe_start = 2
    /\ recent_black_episodes = 2 /\ black_frame_count = 0

\* C9: open and push return true in every state and on every path; a push
\* whose reset event could not be delivered returns true as well and has
\* reset recent_black_episodes to 0.
C9_AlwaysAccepted ==
    /\ pc \in {"opened", "reopened", "streaming"} => ret = <<TRUE>>
    /\ (Pushed /\ events > 0 /\ delivered < events) =>
           recent_black_episodes = 0
C9_Witness ==
    /\ Pushed /\ events = 1 /\ delivered = 0 /\ ret = <<TRUE>>
    /\ recent_black_episodes = 0

\* C10: after close() followed by open(), black_frame_count,
\* recent_black_episodes and frames_since_last_black_episode are all 0.
C10_NoPersistenceAcrossRestart ==
    pc = "reopened" =>
        /\ black_frame_count = 0
        /\ recent_black_episodes = 0
        /\ frames_since_last_black_episode = 0

\* C11: a frame of a supported format is classified black iff the sum of
\* its sampled bytes is below 30 times their number, the samples being the
\* first width bytes of each row for the luma formats (width * height of
\* them) and the first 3 * width bytes for the packed formats (width *
\* height * 3); a frame whose samples all equal v is black iff v < 30.
Supported(frame) == frame.format \in SupportedYUV \cup SupportedRGB
SamplesPerRow(frame) ==
    IF frame.format \in SupportedRGB THEN 3 * frame.width ELSE frame.width
SamplePositions(frame) ==
    {i * frame.linesize + j + 1 :
        i \in 0..(frame.height - 1), j \in 0..(SamplesPerRow(frame) - 1)}
SampleCount(frame) ==
    IF frame.format \in SupportedRGB
    THEN frame.width * frame.height * 3
    ELSE frame.width * frame.height
RECURSIVE SumOver(_, _)
SumOver(data, P) ==
    IF P = {} THEN 0
    ELSE LET k == CHOOSE x \in P : TRUE
         IN data[k] + SumOver(data, P \ {k})
SampleSum(frame) == SumOver(frame.data, SamplePositions(frame))
Uniform(frame, v) == \A k \in SamplePositions(frame) : frame.data[k] = v

C11_BlackIffMeanBelow30 ==
    (verdict # <<>> /\ Supported(probe.a)) =>
        /\ Cardinality(SamplePositions(probe.a)) = SampleCount(probe.a)
        /\ verdict[1] <=> (SampleSum(probe.a) < 30 * SampleCount(probe.a))
        /\ \A v \in 0..255 : Uniform(probe.a, v) => (verdict[1] <=> v < 30)
C11_Witness ==
    /\ verdict # <<>> /\ verdict[1]
    /\ probe.a.format = "BGR24"
    /\ probe.a.width = ProbeWidth /\ probe.a.height = ProbeHeight
    /\ SampleSum(probe.a) = 30 * SampleCount(probe.a) - 1

\* C12: two frames of the same supported format, width, height and stride,
\* with the stride larger than the row of samples, that agree on every
\* sample byte are classified alike, whatever their padding bytes and
\* chroma planes hold.
SameSamples(f, g) ==
    /\ f.format = g.format /\ f.width = g.width /\ f.height = g.height
    /\ f.linesize = g.linesize
    /\ \A k \in SamplePositions(f) : f.data[k] = g.data[k]

C12_PaddingIndependence ==
    (/\ verdict # <<>> /\ Supported(probe.a)
     /\ probe.a.linesize > SamplesPerRow(probe.a)
     /\ SameSamples(probe.a, probe.b)) => verdict[1] = verdict[2]
C12_Witness ==
    /\ verdict # <<>> /\ verdict[1] /\ verdict[2]
    /\ probe.a.format = "NV12" /\ probe.a.height = ProbeHeight
    /\ SameSamples(probe.a, probe.b)
    /\ probe.a.data # probe.b.data /\ probe.a.chroma # probe.b.chroma
    /\ \E k \in DOMAIN probe.b.data : probe.b.data[k] = 255

\* a step that is a push
PushStep == total_frames_processed' # total_frames_processed

\* C13: a frame of an unsupported pixel format is never classified black,
\* whatever its pixels: its push leaves black_frame_count at 0, ends the
\* current black run, changes the detector exactly as the push of a
\* supported non-black frame would, and returns true.
C13_UnsupportedIsNotBlack ==
    [][(PushStep /\ class' = "unsupported") =>
          /\ black_frame_count' = 0
          /\ run' = 0
          /\ bfd' = sc_black_frame_detector_sink_push(bfd, PlainFrame,
                                                      TRUE).bfd
          /\ ret' = <<TRUE>>]_vars
C13_Witness ==
    /\ Pushed /\ class = "unsupported" /\ ended_run = 3 /\ episode
    /\ black_frame_count = 0 /\ ret = <<TRUE>>

\* C14: after the push of a non-black frame black_frame_count is 0; after
\* the push of a black frame it is the previous value plus 1 if that was
\* below 10, and 0 if it was 10.
C14_BlackFrameCount ==
    [][PushStep =>
          IF class' = "black"
          THEN black_frame_count' =
                   (IF black_frame_count < 10 THEN black_frame_count + 1
                    ELSE 0)
          ELSE black_frame_count' = 0]_vars
C14_Witness ==
    /\ Pushed /\ class = "black" /\ run = 11 /\ black_frame_count = 0
    /\ screen_off

\* C15: whenever the per-frame increment takes
\* frames_since_last_black_episode above 300 and the push completes no
\* episode, recent_black_episodes and frames_since_last_black_episode are
\* both 0 when the push returns.
C15_IdleResetOnEveryPath ==
    (Pushed /\ expiring /\ ~episode) =>
        /\ recent_black_episodes = 0
        /\ frames_since_last_black_episode = 0

\* C16: when a non-black frame ends a run counted as 2 to 5 frames on the
\* push whose increment takes frames_since_last_black_episode to 301, the
\* episode is added to the existing count (with a reset signal if that
\* makes 3) and frames_since_last_black_episode is 0 afterwards: the
\* idle-window check of that push clears nothing.
C16_EpisodeBeforeAging ==
    [][(/\ PushStep /\ class' # "black"
        /\ black_frame_count >= 2 /\ black_frame_count <= 5
        /\ frames_since_last_black_episode + 1 = 301) =>
          /\ frames_since_last_black_episode' = 0
          /\ recent_black_episodes' =
                 (IF recent_black_episodes + 1 >= 3 THEN 0
                  ELSE recent_black_episodes + 1)
          /\ events' = (IF recent_black_episodes + 1 >= 3 THEN 1 ELSE 0)]_vars
C16_Witness ==
    /\ Pushed /\ expiring /\ episode /\ recent_black_episodes = 2
    /\ frames_since_last_black_episode = 0

\* C17 as claimed: a push that emits the reset signal completes the third
\* of exactly three episodes completed since the later of init and the
\* previous signal, consecutive ones at most 301 pushes apart and no
\* screen-off push between the first and the third.
C17_ExactlyThreeEpisodes ==
    [][(PushStep /\ events' > 0) =>
          eps_since_sig = 2 /\ chain' = 3]_vars

\* C17 as amended: a push that emits the reset signal completes an episode
\* that is at least the third since the later of init and the previous
\* signal, and the last three episodes (this one included) are such that
\* consecutive ones are at most 301 pushes apart and no push between the
\* first and the third took the screen-off branch.
C17_EverySignalHasACause ==
    [][(PushStep /\ events' > 0) =>
          episode' /\ eps_since_sig >= 2 /\ chain' = 3]_vars
C17_Witness ==
    /\ Pushed /\ events = 1 /\ chain = 3 /\ nsig = 1
    /\ total_frames_processed > IdleWindow + MaxFrames

\* C18: fed the same black/non-black frames, the code and the rule of spec
\* section 4.2 agree after every frame on black_frame_count and
\* recent_black_episodes and on whether the frame emitted the reset signal.
C18_RefinesRule ==
    /\ black_frame_count = rule.currentBlackRun
    /\ recent_black_episodes = rule.recentEpisodes
    /\ (events > 0) = rule.signal
C18_Witness ==
    /\ Pushed /\ rule.framesSinceLastEpisode > IdleWindow
    /\ frames_since_last_black_episode < rule.framesSinceLastEpisode
    /\ black_frame_count = 2 /\ rule.currentBlackRun = 2

\* C19: in every reachable state 0 <= black_frame_count <= 10,
\* 0 <= recent_black_episodes <= 2 and
\* 0 <= frames_since_last_black_episode <= 301.
C19_CountersBounded ==
    /\ black_frame_count \in 0..10
    /\ recent_black_episodes \in 0..2
    /\ frames_since_last_black_episode \in 0..301
C19_Witness ==
    /\ Pushed /\ frames_since_last_black_episode = 301 /\ screen_off
    /\ black_frame_count = 0 /\ recent_black_episodes = 0

====
